---- MODULE Spec2Model ----
(***************************************************************************)
(* A model of the read-and-run shell of main.cpp: the prompt loop (main,   *)
(* repl_loop), the tokenizer (parse_input) and the launcher                *)
(* (exec_command: fork, execvp in the child; signal, wait, signal in the   *)
(* parent), together with the operating-system state these calls act on:   *)
(* the process table of the shell's children, the SIGINT disposition of    *)
(* each process, and SIGINT deliveries from the terminal or from kill.     *)
(***************************************************************************)
EXTENDS Integers, Sequences, FiniteSets, TLC

(* ------------------------------ bounds --------------------------------- *)

\* number of input lines of the stream on stdin
MaxLines == 2
\* number of children the shell process already has when main starts
\* (children survive an exec of their parent)
MaxOther == 1

(* ------------------------ strings and programs ------------------------- *)

\* a std::string is a sequence of one-character strings
StrTrue == <<"t", "r", "u", "e">>
StrFalse == <<"f", "a", "l", "s", "e">>
StrExit == <<"e", "x", "i", "t">>
StrNox == <<"n", "o", "x">>
StrArg == <<"a">>

\* the executables execvp finds on the PATH, with the exit code each one
\* chooses when it runs to completion
Executables == {StrTrue, StrFalse}
ExitCodeOf(file) == IF file = StrFalse THEN 1 ELSE 0

\* the input lines the prompt loop is fed: a command without arguments, one
\* with an argument, a command that does not exist, exit, and the empty line
Lines == { StrTrue, StrFalse \o <<" ">> \o StrArg, StrNox, StrExit, <<>> }

RECURSIVE SeqsUpTo(_, _)
SeqsUpTo(S, n) ==
    IF n = 0 THEN {<<>>}
    ELSE LET shorter == SeqsUpTo(S, n - 1)
         IN  shorter \cup {Append(s, x) : s \in {t \in shorter : Len(t) = n - 1}, x \in S}

\* the text on stdin, split at its newlines: the last element is the text
\* after the last newline (empty when the stream ends with a newline)
Streams == {s \in SeqsUpTo(Lines, MaxLines) : Len(s) >= 1}

(* ------------------------------ parse_input ---------------------------- *)

\* input.substr(pos, count), positions counted from 0
Substr(input, pos, count) == SubSeq(input, pos + 1, pos + count)

\* (mutation) the loop pushing a part only when it is not empty
RECURSIVE SplitLoopSkippingEmpty(_, _, _, _)
SplitLoopSkippingEmpty(input, i, last_index, parts) ==
    IF i >= Len(input) THEN [last_index |-> last_index, parts |-> parts]
    ELSE IF input[i + 1] = " "
         THEN SplitLoopSkippingEmpty(input, i + 1, i + 1,
                  IF i > last_index
                  THEN Append(parts, Substr(input, last_index, i - last_index))
                  ELSE parts)
         ELSE SplitLoopSkippingEmpty(input, i + 1, last_index, parts)

\* the for loop of parse_input from index i on, with last_index and parts
RECURSIVE SplitLoop(_, _, _, _)
SplitLoop(input, i, last_index, parts) ==
    IF i >= Len(input) THEN [last_index |-> last_index, parts |-> parts]
    ELSE IF input[i + 1] = " "
         THEN SplitLoop(input, i + 1, i + 1,
                        Append(parts, Substr(input, last_index, i - last_index)))
         ELSE SplitLoop(input, i + 1, last_index, parts)

\* the parts vector just before the emptiness test
Parts(input) ==
    LET r == SplitLoop(input, 0, 0, <<>>)
    IN  IF r.last_index < Len(input)
        THEN Append(r.parts, Substr(input, r.last_index, Len(input) - r.last_index))
        ELSE r.parts

\* parse_input throws "Empty command"
ParseThrows(input) == Len(Parts(input)) = 0

\* the command parse_input returns
parse_input(input) ==
    LET parts == Parts(input)
    IN  [file |-> parts[1], args |-> Tail(parts)]

NoCmd == [file |-> <<>>, args |-> <<>>]

(* ----------------------------- processes ------------------------------- *)

\* process ids of the children of the shell process
MaxPid == MaxLines + MaxOther
Pids == 1 .. MaxPid

SIGINT == 2

NoStatus == [how |-> "none", val |-> 0]
Exited(code) == [how |-> "exit", val |-> code % 256]
Signaled(sig) == [how |-> "signal", val |-> sig]
\* what a void function hands back: nothing
Void == [how |-> "void", val |-> 0]

\* a slot of the process table:
\*   st     "none"    no such process
\*          "forked"  the child of fork(), running the child branch of
\*                    exec_command, before execvp
\*          "running" running the program execvp loaded
\*          "zombie"  terminated, not yet waited for
\*          "reaped"  terminated and collected by wait()
\*          "fallen"  a child that left the child branch of exec_command
\*   kind   "launched" by exec_command, "other" for a child the shell had
\*          before main started
\*   call   the exec_command call that forked it (0 for "other")
\*   sig    its SIGINT disposition
\*   file   the cmd.file of its copy of cmd
\*   args   the cmd.args of its copy of cmd
\*   path   the first argument of its execvp call (<<>> before the call)
\*   argv   the second argument of its execvp call (<<>> before the call)
NoProc == [st |-> "none", kind |-> "none", call |-> 0, sig |-> "default",
           file |-> <<>>, args |-> <<>>, path |-> <<>>, argv |-> <<>>,
           status |-> NoStatus]
OtherProc == [st |-> "running", kind |-> "other", call |-> 0, sig |-> "default",
              file |-> <<>>, args |-> <<>>, path |-> <<>>, argv |-> <<>>,
              status |-> NoStatus]

Alive == {"forked", "running"}

VARIABLES
    stdin,      \* the lines of cin not yet read
    eof,        \* in.eof()
    pc,         \* where the shell process is
    cmd,        \* the command of the current repl_loop
    pid,        \* exec_command's pid: what fork() returned in the parent
    sigint,     \* the shell's SIGINT disposition
    startSig,   \* the SIGINT disposition the shell was started with
    preSig,     \* the shell's SIGINT disposition when exec_command was entered
    ncalls,     \* number of exec_command calls so far
    procs,      \* the process table: the children of the shell
    waitRet,    \* what the last wait() returned (the code discards it)
    result,     \* what exec_command handed back to repl_loop
    killedAt,   \* where the shell was when a signal terminated it
    killedBy,   \* which delivery terminated it
    input,      \* repl_loop's input: the line getline read last
    discarded   \* during the wait() in progress the shell discarded a SIGINT
                \* that kill sent to it alone

vars == <<stdin, eof, pc, cmd, pid, sigint, startSig, preSig, ncalls, procs,
          waitRet, result, killedAt, killedBy, input, discarded>>

Init ==
    /\ stdin \in Streams
    /\ eof = FALSE
    /\ pc = "main"
    /\ cmd = NoCmd
    /\ pid = 0
    /\ startSig \in {"default", "ignore"}
    /\ sigint = startSig
    /\ preSig = startSig
    /\ ncalls = 0
    /\ \E n \in 0 .. MaxOther :
         procs = [p \in Pids |-> IF p <= n THEN OtherProc ELSE NoProc]
    /\ waitRet = 0
    /\ result = NoStatus
    /\ killedAt = "none"
    /\ killedBy = "none"
    /\ input = <<>>
    /\ discarded = FALSE

(* --------------------------- main, repl_loop --------------------------- *)

ShellAlive == pc \notin {"done", "fatal", "killed"}

\* getline(in, input): the line read
GetLine == Head(stdin)

\* getline reached the end of the stream (no newline ended the line)
GetLineEof == Len(stdin) = 1

\* main: the loop condition !in.eof() is false, main returns
MainEof ==
    /\ pc = "main"
    /\ eof
    /\ pc' = "done"
    /\ UNCHANGED <<stdin, eof, cmd, pid, sigint, startSig, preSig, ncalls,
                   procs, waitRet, result, killedAt, killedBy, input, discarded>>

\* (mutation) the exception caught inside the loop: the line is skipped and
\* the loop goes on
ReplThrowSkipped ==
    /\ pc = "main"
    /\ ~eof
    /\ ParseThrows(GetLine)
    /\ input' = GetLine
    /\ stdin' = Tail(stdin)
    /\ eof' = GetLineEof
    /\ pc' = "main"
    /\ UNCHANGED <<cmd, pid, sigint, startSig, preSig, ncalls, procs, waitRet,
                   result, killedAt, killedBy, discarded>>

\* repl_loop: parse_input throws, the exception leaves the loop of main,
\* whose handler prints "Fatal error" and main returns
ReplThrow ==
    /\ pc = "main"
    /\ ~eof
    /\ ParseThrows(GetLine)
    /\ input' = GetLine
    /\ stdin' = Tail(stdin)
    /\ eof' = GetLineEof
    /\ pc' = "fatal"
    /\ UNCHANGED <<cmd, pid, sigint, startSig, preSig, ncalls, procs, waitRet,
                   result, killedAt, killedBy, discarded>>

\* (mutation) the test for exit left out: exit is launched like any command
ReplExitLaunched ==
    /\ pc = "main"
    /\ ~eof
    /\ ~ParseThrows(GetLine)
    /\ parse_input(GetLine).file = StrExit
    /\ input' = GetLine
    /\ stdin' = Tail(stdin)
    /\ eof' = GetLineEof
    /\ cmd' = parse_input(GetLine)
    /\ pc' = "fork"
    /\ preSig' = sigint
    /\ ncalls' = ncalls + 1
    /\ pid' = 0
    /\ waitRet' = 0
    /\ result' = NoStatus
    /\ UNCHANGED <<sigint, startSig, procs, killedAt, killedBy, discarded>>

\* repl_loop: the command is exit, repl_loop returns false and main breaks
ReplExit ==
    /\ pc = "main"
    /\ ~eof
    /\ ~ParseThrows(GetLine)
    /\ parse_input(GetLine).file = StrExit
    /\ input' = GetLine
    /\ stdin' = Tail(stdin)
    /\ eof' = GetLineEof
    /\ cmd' = parse_input(GetLine)
    /\ pc' = "done"
    /\ UNCHANGED <<pid, sigint, startSig, preSig, ncalls, procs, waitRet,
                   result, killedAt, killedBy, discarded>>

\* repl_loop: any other command, exec_command(cmd) is entered
ReplExec ==
    /\ pc = "main"
    /\ ~eof
    /\ ~ParseThrows(GetLine)
    /\ parse_input(GetLine).file # StrExit
    /\ input' = GetLine
    /\ stdin' = Tail(stdin)
    /\ eof' = GetLineEof
    /\ cmd' = parse_input(GetLine)
    /\ pc' = "fork"
    /\ preSig' = sigint
    /\ ncalls' = ncalls + 1
    /\ pid' = 0
    /\ waitRet' = 0
    /\ result' = NoStatus
    /\ UNCHANGED <<sigint, startSig, procs, killedAt, killedBy, discarded>>

(* ----------------------------- exec_command ---------------------------- *)

FreePids == {p \in Pids : procs[p].st = "none"}

\* (mutation) signal(SIGINT, SIG_IGN) moved before fork(): the child starts
\* with the ignore the launcher installed
ForkedProcIgnoring ==
    [st |-> "forked", kind |-> "launched", call |-> ncalls, sig |-> "ignore",
     file |-> cmd.file, args |-> cmd.args, path |-> <<>>, argv |-> <<>>,
     status |-> NoStatus]

\* the process fork() creates: a copy of the shell, with its dispositions
ForkedProc ==
    [st |-> "forked", kind |-> "launched", call |-> ncalls, sig |-> sigint,
     file |-> cmd.file, args |-> cmd.args, path |-> <<>>, argv |-> <<>>,
     status |-> NoStatus]

\* fork() succeeds: the parent gets the child's pid and takes the else branch
ForkChild ==
    /\ pc = "fork"
    /\ FreePids # {}
    /\ LET p == CHOOSE q \in FreePids : \A r \in FreePids : q <= r
       IN  /\ procs' = [procs EXCEPT ![p] = ForkedProc]
           /\ pid' = p
    /\ pc' = "parent"
    /\ UNCHANGED <<stdin, eof, cmd, sigint, startSig, preSig, ncalls, waitRet,
                   result, killedAt, killedBy, input, discarded>>

\* fork() fails: it returns -1, which is not 0, so the else branch is taken
ForkFail ==
    /\ pc = "fork"
    /\ pid' = -1
    /\ pc' = "parent"
    /\ UNCHANGED <<stdin, eof, cmd, sigint, startSig, preSig, ncalls, procs,
                   waitRet, result, killedAt, killedBy, input, discarded>>

\* (mutation) the signal(SIGINT, SIG_IGN) call left out
SigIgnLeftOut ==
    /\ pc = "parent"
    /\ pc' = "wait"
    /\ UNCHANGED <<stdin, eof, cmd, pid, sigint, startSig, preSig, ncalls, procs,
                   waitRet, result, killedAt, killedBy, input, discarded>>

\* signal(SIGINT, SIG_IGN)
SigIgn ==
    /\ pc = "parent"
    /\ sigint' = "ignore"
    /\ pc' = "wait"
    /\ UNCHANGED <<stdin, eof, cmd, pid, startSig, preSig, ncalls, procs,
                   waitRet, result, killedAt, killedBy, input, discarded>>

\* the children wait() can collect, and those it blocks for
Zombies == {p \in Pids : procs[p].st = "zombie"}
Unwaited == {p \in Pids : procs[p].st \in Alive \cup {"zombie", "fallen"}}

\* (mutation) a wait that does not block: it returns at once, as with WNOHANG
WaitNoHang ==
    /\ pc = "wait"
    /\ Unwaited # {}
    /\ waitRet' = pid
    /\ pc' = "restore"
    /\ UNCHANGED <<stdin, eof, cmd, pid, sigint, startSig, preSig, ncalls, procs,
                   result, killedAt, killedBy, input, discarded>>

\* (mutation) a wait that leaves the terminated child in the process table,
\* as waitid with WNOWAIT does
WaitNoReap ==
    /\ pc = "wait"
    /\ \E p \in Zombies : waitRet' = p
    /\ pc' = "restore"
    /\ UNCHANGED <<stdin, eof, cmd, pid, sigint, startSig, preSig, ncalls, procs,
                   result, killedAt, killedBy, input, discarded>>

\* wait(nullptr) returns the pid of a terminated child of the shell, any one
WaitReap ==
    /\ pc = "wait"
    /\ \E p \in Zombies :
         /\ procs' = [procs EXCEPT ![p].st = "reaped"]
         /\ waitRet' = p
    /\ discarded' = FALSE
    /\ pc' = "restore"
    /\ UNCHANGED <<stdin, eof, cmd, pid, sigint, startSig, preSig, ncalls,
                   result, killedAt, killedBy, input>>

\* wait(nullptr) fails with ECHILD: the shell has no child
WaitNoChild ==
    /\ pc = "wait"
    /\ Unwaited = {}
    /\ waitRet' = -1
    /\ discarded' = FALSE
    /\ pc' = "restore"
    /\ UNCHANGED <<stdin, eof, cmd, pid, sigint, startSig, preSig, ncalls,
                   procs, result, killedAt, killedBy, input>>

\* signal(SIGINT, SIG_DFL)
SigDfl ==
    /\ pc = "restore"
    /\ sigint' = "default"
    /\ pc' = "ret"
    /\ UNCHANGED <<stdin, eof, cmd, pid, startSig, preSig, ncalls, procs,
                   waitRet, result, killedAt, killedBy, input, discarded>>

\* (mutation) a launch that failed (fork() or wait() returned -1, or the
\* child exited with the status of a failed execvp) ends the prompt loop
ExecReturnAbortOnFailure ==
    /\ pc = "ret"
    /\ result' = Void
    /\ pc' = IF \/ pid = -1
                \/ waitRet = -1
                \/ (pid \in Pids /\ procs[pid].status = Exited(-1))
             THEN "fatal" ELSE "main"
    /\ UNCHANGED <<stdin, eof, cmd, pid, sigint, startSig, preSig, ncalls,
                   procs, waitRet, killedAt, killedBy, input, discarded>>

\* (mutation) exec_command returning the status of its child
ExecReturnStatus ==
    /\ pc = "ret"
    /\ result' = IF pid \in Pids THEN procs[pid].status ELSE Void
    /\ pc' = "main"
    /\ UNCHANGED <<stdin, eof, cmd, pid, sigint, startSig, preSig, ncalls,
                   procs, waitRet, killedAt, killedBy, input, discarded>>

\* exec_command returns (it is void) and repl_loop returns true
ExecReturn ==
    /\ pc = "ret"
    /\ result' = Void
    /\ pc' = "main"
    /\ UNCHANGED <<stdin, eof, cmd, pid, sigint, startSig, preSig, ncalls,
                   procs, waitRet, killedAt, killedBy, input, discarded>>

(* ------------------------------ the child ------------------------------ *)

\* an element of argv not yet assigned, and the null pointer that ends argv
Uninit == <<"uninitialized">>
Nullptr == <<"nullptr">>

\* (mutation) the loop storing args[i] at argv[i] instead of argv[i + 1]
RECURSIVE ArgvLoopOffByOne(_, _, _)
ArgvLoopOffByOne(args, i, argv) ==
    IF i >= Len(args) THEN argv
    ELSE ArgvLoopOffByOne(args, i + 1, [argv EXCEPT ![i + 1] = args[i + 1]])

\* the for loop that fills argv from index i on; the C array argv[0 .. n+1]
\* is the sequence argv[1 .. n+2]
RECURSIVE ArgvLoop(_, _, _)
ArgvLoop(args, i, argv) ==
    IF i >= Len(args) THEN argv
    ELSE ArgvLoop(args, i + 1, [argv EXCEPT ![i + 2] = args[i + 1]])

\* the argv the child branch builds for execvp
Argv(file, args) ==
    LET n == Len(args)
        declared == [k \in 1 .. n + 2 |-> Uninit]
        first == [declared EXCEPT ![1] = file]
        filled == ArgvLoop(args, 0, first)
    IN  [filled EXCEPT ![n + 2] = Nullptr]

\* the child calls execvp(cmd.file.c_str(), argv)
Execvp(proc) ==
    [proc EXCEPT !.path = proc.file, !.argv = Argv(proc.file, proc.args)]

\* execvp succeeds: the child becomes the program; an ignored signal stays
\* ignored across the exec
ChildExec(p) ==
    /\ procs[p].st = "forked"
    /\ procs[p].file \in Executables
    /\ procs' = [procs EXCEPT ![p] = [Execvp(procs[p]) EXCEPT !.st = "running"]]
    /\ UNCHANGED <<stdin, eof, pc, cmd, pid, sigint, startSig, preSig, ncalls,
                   waitRet, result, killedAt, killedBy, input, discarded>>

\* (mutation) the exit(-1) after the failed execvp left out: the child
\* returns from exec_command into the prompt loop
ChildExecFailNoExit(p) ==
    /\ procs[p].st = "forked"
    /\ procs[p].file \notin Executables
    /\ procs' = [procs EXCEPT ![p] = [Execvp(procs[p]) EXCEPT !.st = "fallen"]]
    /\ UNCHANGED <<stdin, eof, pc, cmd, pid, sigint, startSig, preSig, ncalls,
                   waitRet, result, killedAt, killedBy, input, discarded>>

\* execvp returns: the child prints the error and calls exit(-1)
ChildExecFail(p) ==
    /\ procs[p].st = "forked"
    /\ procs[p].file \notin Executables
    /\ procs' = [procs EXCEPT ![p] = [Execvp(procs[p]) EXCEPT
                                         !.st = "zombie", !.status = Exited(-1)]]
    /\ UNCHANGED <<stdin, eof, pc, cmd, pid, sigint, startSig, preSig, ncalls,
                   waitRet, result, killedAt, killedBy, input, discarded>>

\* the program runs to completion
ChildExit(p) ==
    /\ procs[p].st = "running"
    /\ procs[p].kind = "launched"
    /\ procs' = [procs EXCEPT ![p].st = "zombie",
                              ![p].status = Exited(ExitCodeOf(procs[p].file))]
    /\ UNCHANGED <<stdin, eof, pc, cmd, pid, sigint, startSig, preSig, ncalls,
                   waitRet, result, killedAt, killedBy, input, discarded>>

\* a child the shell had before main started terminates
OtherExit(p) ==
    /\ procs[p].st = "running"
    /\ procs[p].kind = "other"
    /\ procs' = [procs EXCEPT ![p].st = "zombie", ![p].status = Exited(0)]
    /\ UNCHANGED <<stdin, eof, pc, cmd, pid, sigint, startSig, preSig, ncalls,
                   waitRet, result, killedAt, killedBy, input, discarded>>

(* ------------------------------- SIGINT -------------------------------- *)

\* SIGINT delivered to a child: the default action terminates it
Interrupted(proc) ==
    IF proc.st \in Alive /\ proc.sig = "default"
    THEN [proc EXCEPT !.st = "zombie", !.status = Signaled(SIGINT)]
    ELSE proc

\* SIGINT delivered to the shell: the default action terminates it
ShellInterrupted(by) ==
    IF sigint = "default"
    THEN /\ pc' = "killed"
         /\ killedAt' = pc
         /\ killedBy' = by
         /\ UNCHANGED discarded
    ELSE /\ discarded' = (discarded \/ (by = "kill" /\ pc = "wait"))
         /\ UNCHANGED <<pc, killedAt, killedBy>>

\* Ctrl+C on the terminal: SIGINT goes to the shell and to the children it
\* launched, all in the foreground
CtrlC ==
    /\ ShellAlive
    /\ ShellInterrupted("ctrlc")
    /\ procs' = [p \in Pids |-> IF procs[p].kind = "launched"
                                THEN Interrupted(procs[p]) ELSE procs[p]]
    /\ UNCHANGED <<stdin, eof, cmd, pid, sigint, startSig, preSig, ncalls,
                   waitRet, result, input>>

\* kill -INT <pid of the shell>
SigintShell ==
    /\ ShellAlive
    /\ ShellInterrupted("kill")
    /\ UNCHANGED <<stdin, eof, cmd, pid, sigint, startSig, preSig, ncalls,
                   procs, waitRet, result, input>>

\* kill -INT <pid of a launched child>
SigintChild(p) ==
    /\ procs[p].kind = "launched"
    /\ procs[p].st \in Alive
    /\ procs' = [procs EXCEPT ![p] = Interrupted(procs[p])]
    /\ UNCHANGED <<stdin, eof, pc, cmd, pid, sigint, startSig, preSig, ncalls,
                   waitRet, result, killedAt, killedBy, input, discarded>>

(* --------------------------- the specification ------------------------- *)

Next ==
    \/ MainEof
    \/ ReplThrow
    \/ ReplExit
    \/ ReplExec
    \/ ForkChild
    \/ ForkFail
    \/ SigIgn
    \/ WaitReap
    \/ WaitNoChild
    \/ SigDfl
    \/ ExecReturn
    \/ \E p \in Pids : ChildExec(p)
    \/ \E p \in Pids : ChildExecFail(p)
    \/ \E p \in Pids : ChildExit(p)
    \/ \E p \in Pids : OtherExit(p)
    \/ CtrlC
    \/ SigintShell
    \/ \E p \in Pids : SigintChild(p)

Spec == Init /\ [][Next]_vars

(* ------------------------------ progress ------------------------------- *)

\* the steps of the shell process itself: it is one thread, and every call
\* it makes returns when it can
ShellStep ==
    \/ MainEof
    \/ ReplThrow
    \/ ReplExit
    \/ ReplExec
    \/ ForkChild
    \/ ForkFail
    \/ SigIgn
    \/ WaitReap
    \/ WaitNoChild
    \/ SigDfl
    \/ ExecReturn

\* the steps of a launched child on its way to termination
ChildStep(p) ==
    \/ ChildExec(p)
    \/ ChildExecFail(p)
    \/ ChildExit(p)

\* the steps of the shell and of its children when no SIGINT is delivered
NextQuiet ==
    \/ ShellStep
    \/ \E p \in Pids : ChildStep(p)
    \/ \E p \in Pids : OtherExit(p)

\* no SIGINT is delivered, the shell keeps running while it can, and every
\* launched child eventually terminates; a child the shell had before main
\* started may run for ever
FairSpec ==
    /\ Init
    /\ [][NextQuiet]_vars
    /\ WF_vars(ShellStep)
    /\ \A p \in Pids : WF_vars(ChildStep(p))

(* ------------------- one line at a time, undisturbed ------------------- *)

\* number of pieces an input line is made of
MaxPieces == 5

\* the pieces of an input line: a space and three words
Pieces == { <<" ">>, StrExit, StrTrue, StrArg }

RECURSIVE Concat(_)
Concat(ss) == IF ss = <<>> THEN <<>> ELSE Head(ss) \o Concat(Tail(ss))

\* every line of at most MaxPieces pieces: words, words run together, spaces
\* before, between and after them, lines of spaces alone, the empty line
PieceLines == {Concat(ss) : ss \in SeqsUpTo(Pieces, MaxPieces)}

\* the shell started with the default disposition and no children, fed one
\* line, alone or followed by a second one
InitLine ==
    /\ \E l \in PieceLines : stdin \in {<<l>>, <<l, StrTrue>>}
    /\ eof = FALSE
    /\ pc = "main"
    /\ cmd = NoCmd
    /\ pid = 0
    /\ startSig = "default"
    /\ sigint = startSig
    /\ preSig = startSig
    /\ ncalls = 0
    /\ procs = [p \in Pids |-> NoProc]
    /\ waitRet = 0
    /\ result = NoStatus
    /\ killedAt = "none"
    /\ killedBy = "none"
    /\ input = <<>>
    /\ discarded = FALSE

\* the steps of the shell and of its children when fork() succeeds and no
\* signal arrives
NextLine ==
    \/ MainEof
    \/ ReplThrow
    \/ ReplExit
    \/ ReplExec
    \/ ForkChild
    \/ SigIgn
    \/ WaitReap
    \/ SigDfl
    \/ ExecReturn
    \/ \E p \in Pids : ChildExec(p)
    \/ \E p \in Pids : ChildExecFail(p)
    \/ \E p \in Pids : ChildExit(p)

LineSpec == InitLine /\ [][NextLine]_vars

(* ------------------------------ the claims ----------------------------- *)

\* the shell is between the fork() of a launch and the return of exec_command
InLaunch == pc \in {"parent", "wait", "restore", "ret"}

\* the child of the current exec_command call is running and not waited for
ChildRunning == pid \in Pids /\ procs[pid].st \in Alive

\* the shell process had no children when main started
NoInherited == \A p \in Pids : procs[p].kind # "other"

\* exec_command has returned to repl_loop and no later call has begun
Returned == result # NoStatus

\* C1, as stated: between fork() and the return of exec_command the shell's
\* SIGINT disposition is ignore if and only if the child of the call is
\* running and unwaited.
C1_IgnoreIffChildRunning ==
    InLaunch => (sigint = "ignore" <=> ChildRunning)

\* C1, amended: between fork() and the return of exec_command the shell's
\* SIGINT disposition is ignore exactly from signal(SIGINT, SIG_IGN) to
\* signal(SIGINT, SIG_DFL), that is while the shell is at wait() or has
\* waited and not yet restored; before that, right after fork(), it is still
\* the disposition the call was entered with, and after it it is default.
\* So a child that runs while the shell waits runs under ignore, but ignore
\* is not equivalent to a running child.
C1_IgnoreFromSignalToSignal ==
    InLaunch =>
        (sigint = "ignore" <=>
            (pc \in {"wait", "restore"} \/ (pc = "parent" /\ preSig = "ignore")))

C1_Witness ==
    /\ pc = "wait"
    /\ ChildRunning
    /\ sigint = "ignore"
    /\ preSig = "default"

\* C2: when exec_command returns, the shell's SIGINT disposition is the one
\* it had immediately before the call, whatever that was.
C2_DispositionRestored ==
    pc = "ret" => sigint = preSig

\* C3: a Ctrl+C delivered to the shell and its child between the fork() of a
\* launch and the return of exec_command never terminates the shell.
C3_ShellSurvivesCtrlC ==
    (pc = "killed" /\ killedBy = "ctrlc" /\ pid \in Pids)
        => killedAt \notin {"parent", "wait", "restore", "ret"}

\* C4: when fork() fails, exec_command performs no signal(SIGINT, SIG_IGN),
\* no wait and no restore: the shell never reaches the wait or anything after
\* it with pid = -1.
C4_ForkFailureSkipsWait ==
    pid = -1 => pc \notin {"wait", "restore", "ret"}

\* C5, as stated: the wait of a call that created a child ends only when that
\* child has terminated.
C5_WaitEndsOnlyForOwnChild ==
    (pc = "restore" /\ pid \in Pids) => procs[pid].st = "reaped"

\* C5, amended: the wait of a call that created a child ends only when some
\* child of the shell process has terminated, which wait() then collects;
\* wait() takes any child, so the termination of another child of the shell
\* ends the wait too. When the shell process had no children of its own
\* before main started, the wait ends only when the child forked by the
\* current call has terminated.
C5_WaitEndsForAnyChild ==
    (pc = "restore" /\ pid \in Pids) =>
        /\ waitRet \in Pids
        /\ procs[waitRet].st = "reaped"
        /\ NoInherited => (waitRet = pid)

C5_Witness ==
    /\ pc = "restore"
    /\ ChildRunning
    /\ waitRet \in Pids
    /\ waitRet # pid
    /\ procs[waitRet].kind = "other"

C7_WaitFailureSurfaced ==
    (Returned /\ waitRet = -1) => result # Void

\* C8: a child forked by exec_command never runs code meant for the parent:
\* it is in the child branch, has become the program, or has terminated; when
\* execvp failed it never runs a program and its exit status is not zero.
C8_ChildNeverFallsThrough ==
    \A p \in Pids :
        procs[p].kind = "launched" =>
            /\ procs[p].st \in {"forked", "running", "zombie", "reaped"}
            /\ procs[p].file \notin Executables =>
                  /\ procs[p].st # "running"
                  /\ (procs[p].status.how = "exit" => procs[p].status.val # 0)

C8_Witness ==
    \E p \in Pids :
        /\ procs[p].kind = "launched"
        /\ procs[p].file = StrNox
        /\ procs[p].st = "zombie"
        /\ procs[p].status = [how |-> "exit", val |-> 255]

\* C9: the ignore is installed only after the fork: right after fork() the
\* shell still has the disposition the call was entered with, the child of
\* the call has that disposition too, and no child ever has an ignore other
\* than the one the shell itself was started with (first launch only).
C9_IgnoreOnlyAfterFork ==
    /\ pc = "parent" => sigint = preSig
    /\ (InLaunch /\ pid \in Pids) => procs[pid].sig = preSig
    /\ \A p \in Pids :
          (procs[p].kind = "launched" /\ procs[p].sig = "ignore")
              => (startSig = "ignore" /\ procs[p].call = 1)

C9_Witness ==
    /\ pc = "wait"
    /\ sigint = "ignore"
    /\ ncalls = 2
    /\ pid \in Pids
    /\ procs[pid].call = 2
    /\ procs[pid].st = "running"
    /\ procs[pid].sig = "default"
    /\ \E q \in Pids : procs[q].kind = "launched" /\ procs[q].call = 1

\* C10, as stated: when exec_command returns, the child it created is neither
\* running nor a zombie.
C10_NoChildRemains ==
    (pc = "ret" /\ pid \in Pids) => procs[pid].st = "reaped"

\* C10, amended: when exec_command returns and the shell process had no
\* children of its own before main started, no process created by a launch
\* remains: every child is collected, for an existing executable and for one
\* that does not exist.
C10_NoChildRemainsWithoutInherited ==
    (pc = "ret" /\ NoInherited) =>
        \A p \in Pids : procs[p].st \in {"none", "reaped"}

C10_Witness ==
    /\ pc = "ret"
    /\ NoInherited
    /\ ncalls = 2
    /\ \E p, q \in Pids :
          /\ procs[p].file \in Executables /\ procs[p].st = "reaped"
          /\ procs[q].file = StrNox /\ procs[q].st = "reaped"

\* the children the shell launched that are not yet waited for
LaunchedUnwaited ==
    {p \in Pids : procs[p].kind = "launched" /\ procs[p].st \in Alive \cup {"zombie"}}

\* C11, as stated: at most one child created by the shell is alive and
\* unwaited at any time.
C11_AtMostOneChild ==
    Cardinality(LaunchedUnwaited) <= 1

\* C11, amended: each exec_command call creates at most one child (none when
\* fork() fails), and a call forks only after the call before it has
\* returned with SIGINT back at default; when the shell process had no
\* children of its own before main started, at most one launched child is
\* alive and unwaited at any time.
C11_LaunchesInSequence ==
    /\ \A p, q \in Pids :
          (procs[p].kind = "launched" /\ procs[q].kind = "launched" /\ p # q)
              => procs[p].call # procs[q].call
    /\ \A p \in Pids : procs[p].kind = "launched" => procs[p].call \in 1 .. ncalls
    /\ pc = "fork" =>
          /\ \A p \in Pids : procs[p].call # ncalls
          /\ ncalls > 1 => sigint = "default"
    /\ NoInherited => Cardinality(LaunchedUnwaited) <= 1

C11_Witness ==
    /\ NoInherited
    /\ ncalls = 2
    /\ pc = "wait"
    /\ ChildRunning
    /\ procs[pid].call = 2
    /\ \E q \in Pids : procs[q].call = 1 /\ procs[q].st = "reaped"

\* C12: the argument vector a child passes to execvp is its command's file,
\* then the arguments in their order, then the null pointer: n + 2 elements;
\* the name execvp searches for is file; and the command is the one the
\* shell parsed.
C12_ArgvIsFileArgsNull ==
    /\ \A p \in Pids :
          procs[p].argv # <<>> =>
              /\ procs[p].argv = <<procs[p].file>> \o procs[p].args \o <<Nullptr>>
              /\ Len(procs[p].argv) = Len(procs[p].args) + 2
              /\ procs[p].path = procs[p].file
    /\ (InLaunch /\ pid \in Pids) =>
          /\ procs[pid].file = cmd.file
          /\ procs[pid].args = cmd.args

C12_Witness ==
    \E p \in Pids :
        /\ procs[p].st = "running"
        /\ procs[p].file = StrTrue
        /\ procs[p].args = <<StrArg, StrExit>>
        /\ procs[p].argv = <<StrTrue, StrArg, StrExit, Nullptr>>

\* the launch in progress failed: fork() failed, wait() failed, or execvp
\* failed in the child
LaunchFailed ==
    \/ pid = -1
    \/ waitRet = -1
    \/ (pid \in Pids /\ procs[pid].file \notin Executables)

\* a step taken inside exec_command leads on through exec_command or back to
\* the loop of main, or is the shell's termination by a signal
StaysInLoop ==
    pc \in {"fork", "parent", "wait", "restore", "ret"} =>
        /\ pc' \in {"fork", "parent", "wait", "restore", "ret", "main", "killed"}
        /\ (pc = "ret" /\ pc' # pc) => pc' \in {"main", "killed"}

\* C13: a launch never ends the prompt loop, whether or not it failed: from
\* inside exec_command the shell goes nowhere but on through exec_command
\* and back to the loop of main (unless a SIGINT terminates it), where, if
\* the input has not ended, a next line is there to be read.
C13_FailedLaunchKeepsLoop ==
    /\ [][StaysInLoop]_vars
    /\ [](pc = "main" /\ ~eof => stdin # <<>>)

C13_Witness ==
    /\ pc = "main"
    /\ Returned
    /\ ~eof
    /\ pid = -1
    /\ waitRet = -1
    /\ LaunchFailed

\* C14: every command parse_input returns, and exec_command is entered
\* with, has a non-empty file.
C14_FileNonEmpty ==
    pc = "fork" => cmd.file # <<>>

\* the step in which the waiting shell discards a SIGINT sent to it alone
\* leaves the shell in wait() and every child as it was
DiscardChangesNothing ==
    (pc = "wait" /\ ~discarded /\ discarded') => (pc' = "wait" /\ procs' = procs)

\* C15: a SIGINT that kill sends to the shell alone while it waits interrupts
\* neither process: it never terminates the shell in wait(), the shell stays
\* blocked in wait() under ignore, and the children are left as they were.
C15_KillWhileWaitingIsDiscarded ==
    /\ []((pc = "killed" /\ killedBy = "kill") => killedAt # "wait")
    /\ [](discarded => (pc = "wait" /\ sigint = "ignore"))
    /\ [][DiscardChangesNothing]_vars

C15_Witness ==
    /\ pc = "wait"
    /\ discarded
    /\ pid \in Pids
    /\ procs[pid].st = "running"
    /\ procs[pid].status = NoStatus

\* the line begins with the word exit: it is exit, or exit and a space and
\* anything
FirstTokenIsExit(line) ==
    /\ Len(line) >= 4
    /\ SubSeq(line, 1, 4) = StrExit
    /\ Len(line) > 4 => line[5] = " "

\* reading a line whose first token is exit ends the loop and creates no
\* child
ExitLineEndsLoop ==
    (pc = "main" /\ ~eof /\ FirstTokenIsExit(Head(stdin)) /\ stdin' # stdin)
        => (pc' = "done" /\ procs' = procs /\ ncalls' = ncalls)

\* once main has left the loop nothing is read and nothing is launched
DoneReadsNothing ==
    pc = "done" =>
        /\ pc' = "done"
        /\ stdin' = stdin
        /\ ncalls' = ncalls
        /\ \A p \in Pids : procs[p].st = "none" => procs'[p].st = "none"

\* C16: when the first token of the line read is exit, with or without
\* arguments, the loop ends, no child is created for the line, and no later
\* line is read or launched.
C16_ExitEndsLoop ==
    /\ [][ExitLineEndsLoop]_vars
    /\ [][DoneReadsNothing]_vars

C16_Witness ==
    /\ pc = "done"
    /\ input = StrExit \o <<" ">> \o StrArg
    /\ cmd.file = StrExit
    /\ cmd.args = <<StrArg>>
    /\ stdin = <<StrTrue>>
    /\ ~eof
    /\ \A p \in Pids : procs[p].st = "none"

\* reading the empty line ends main with the fatal error and creates no
\* child
EmptyLineIsFatal ==
    (pc = "main" /\ ~eof /\ Head(stdin) = <<>> /\ stdin' # stdin)
        => (pc' = "fatal" /\ procs' = procs /\ ncalls' = ncalls)

\* once the exception has left the loop nothing is read and nothing is
\* launched
FatalReadsNothing ==
    pc = "fatal" =>
        /\ pc' = "fatal"
        /\ stdin' = stdin
        /\ ncalls' = ncalls
        /\ \A p \in Pids : procs[p].st = "none" => procs'[p].st = "none"

\* C18: the empty line ends the whole shell: parse_input throws, main leaves
\* its loop, no child is created for the line, and the lines after it are
\* never read or launched; main ends this way only after an empty line.
C18_EmptyLineEndsShell ==
    /\ [][EmptyLineIsFatal]_vars
    /\ [][FatalReadsNothing]_vars
    /\ [](pc = "fatal" => input = <<>>)

C18_Witness ==
    /\ pc = "fatal"
    /\ input = <<>>
    /\ stdin = <<StrTrue>>
    /\ ncalls = 0
    /\ \A p \in Pids : procs[p].kind # "launched"

\* the tokens joined with one space between consecutive ones
RECURSIVE Join(_)
Join(tokens) ==
    IF Len(tokens) = 0 THEN <<>>
    ELSE IF Len(tokens) = 1 THEN tokens[1]
    ELSE tokens[1] \o <<" ">> \o Join(Tail(tokens))

\* the line without its last character when that is a space
DropTrailingSpace(line) ==
    IF Len(line) > 0 /\ line[Len(line)] = " "
    THEN SubSeq(line, 1, Len(line) - 1)
    ELSE line

\* C19: for the non-empty line read last, file and args joined with single
\* spaces give the line back, less one trailing space if it has one, and no
\* token contains a space.
C19_JoinGivesLineBack ==
    input # <<>> =>
        LET tokens == <<cmd.file>> \o cmd.args
        IN  /\ Join(tokens) = DropTrailingSpace(input)
            /\ \A k \in 1 .. Len(tokens) :
                  \A j \in 1 .. Len(tokens[k]) : tokens[k][j] # " "

C19_Witness ==
    /\ input = StrArg \o <<" ", " ">> \o StrArg \o <<" ">>
    /\ cmd.file = StrArg
    /\ cmd.args = << <<>>, StrArg >>
    /\ pc = "fork"

BlockedOnInherited ==
    /\ pc = "wait"
    /\ pid = -1
    /\ \E p \in Pids : procs[p].kind = "other" /\ procs[p].st = "running"

====
